---- MODULE Spec2Model ----
(***************************************************************************)
(* Adapter layer of the RPC server: construction of a NodeHttpHandler or   *)
(* FetchHandler from its options and plugins, one handle call running the  *)
(* adapter interceptors around the core step (request conversion, standard *)
(* handler, response), and the BodyLimitPlugin of each adapter guarding    *)
(* the request body while it streams.                                      *)
(***************************************************************************)
EXTENDS Integers, Sequences, FiniteSets, TLC

\* ------------------------------------------------------------ bounds
\* Longest list of adapterInterceptors given to the constructor.
MaxInterceptors == 2
\* Longest list of plugins given to the constructor.
MaxPlugins == 2
\* Most body chunks the underlying request produces.
MaxChunks == 3
\* Largest length of one body chunk.
MaxChunkLen == 2
\* Largest numeric content-length header.
MaxHeader == 3
\* Largest maxBodySize a BodyLimitPlugin is configured with.
MaxLimit == 2
\* Handle calls in flight at once on one handler.
MaxCalls == 2
\* Most properties accessed in a row on a client.
MaxPath == 2
\* Most invocations of a client.
MaxInvocations == 2
\* Longest middleware list of a procedure.
MaxMiddleware == 3

\* ------------------------------------------------------------ state
VARIABLES
  adapter,              \* "node" (NodeHttpHandler) or "fetch" (FetchHandler)
  maxBodySize,          \* BodyLimitPlugin.maxBodySize
  contentLength,        \* the request's content-length header
  hasBody,              \* whether request.body is a stream (Fetch: may be null)
  handleOptions,        \* the caller's resolved handle options (prefix, context)
  plugins,              \* CompositePlugin.plugins
  options,              \* the options object given to the constructor
  initCalls,            \* calls of plugin.initRuntimeAdapter, in call order
  cursor,               \* position of the composite's for-of loop over plugins
  adapterInterceptors,  \* handler.adapterInterceptors
  responseOptions,      \* handler.sendStandardResponseOptions / toFetchResponseOptions
  pc,                   \* where the constructor / the handle call stands
  index,                \* intercept: interceptors invoked so far
  awaiting,             \* interceptors suspended in their call of next
  current,              \* the options object travelling down the chain
  result,               \* the value (or error) travelling back up the chain
  standardResult,       \* how the promise of standardHandler.handle settled
  sent,                 \* Node: state of the awaited sendStandardResponse
  mainResult,           \* what the core function returned or threw
  trace,                \* enter / main / exit events of the handle call
  interceptorCalls,     \* options each interceptor was invoked with
  convertCalls,         \* calls of toStandardLazyRequest
  standardCalls,        \* calls of standardHandler.handle
  responseCalls,        \* calls of sendStandardResponse / toFetchResponse
  limiter,              \* closure state of the BodyLimitPlugin interceptor
  body,                 \* the chunk lengths the underlying request body holds
  rawRead,              \* chunks the underlying request body has produced so far
  rawEnded,             \* the underlying body has signalled its end
  forwarded,            \* chunks the limiter passed on (originalEmit / enqueue)
  wrapped,              \* Fetch: the wrapping ReadableStream
  bodyRequested,        \* the standard handler has started to read the body
  delivered,            \* chunks the downstream consumer of the body received
  consumer,             \* what the downstream consumer observed last
  rejection,            \* the limiter's PAYLOAD_TOO_LARGE, if any
  procedure,            \* whether the procedure behind the standard handler ran
  aborted,              \* the call's abort signal has fired
  rawReader,            \* Fetch: the reader the limiter got on the raw body
  calls,                \* concurrent handle calls on one handler, by call
  closures,             \* the limiter closures of these calls, by scope
  clientOptions,        \* the options createORPCClient was first called with
  client,               \* the client proxy the caller holds
  lastGet,              \* what the last property access returned
  invoked,              \* number of invocations of a client so far
  linkCount,            \* number of calls of link.call so far
  lastInvocation,       \* the last invocation of a client and what it returned
  lastLinkCall,         \* the arguments and the result of the last link.call
  middlewares,          \* the middleware list of the procedure
  chainPc,              \* where the execution of the middleware chain stands
  ran,                  \* the middleware that ran, in order
  suspended,            \* the middleware waiting for their call of next
  context,              \* the context handed to the next step
  handlerRan,           \* whether the handler of the procedure ran
  shortCircuit,         \* the middleware that called output, and the value
  chainResult           \* the result travelling back up the chain

configVars == <<adapter, maxBodySize, contentLength, hasBody, body, handleOptions, plugins>>
ctorVars == <<options, initCalls, cursor, adapterInterceptors, responseOptions>>
callVars == <<index, awaiting, current, result, standardResult, sent, mainResult,
              trace, interceptorCalls, convertCalls, standardCalls, responseCalls>>
bodyVars == <<limiter, rawRead, rawEnded, forwarded, wrapped, bodyRequested,
              delivered, consumer, rejection>>
guardVars == <<procedure, aborted, rawReader>>
callsVars == <<calls, closures>>
clientVars == <<clientOptions, client, lastGet, invoked, linkCount,
                lastInvocation, lastLinkCall>>
chainVars == <<middlewares, chainPc, ran, suspended, context, handlerRan,
               shortCircuit, chainResult>>
otherVars == <<callsVars, clientVars, chainVars>>
singleVars == <<configVars, pc, callVars, bodyVars, guardVars, clientVars, chainVars>>
serverVars == <<configVars, ctorVars, pc, callVars, bodyVars, guardVars, callsVars>>
vars == <<configVars, ctorVars, pc, callVars, bodyVars, guardVars, otherVars>>

\* ------------------------------------------------------------ values
\* Identity of the options object handed to the constructor.
OptionsRef == "options"
\* The native request and response objects of the call.
NativeRequest == "req"
NativeResponse == "res"
\* The standard response the standard handler answers a matched request with.
StandardResponse == "R"

\* What a user-supplied adapter interceptor does with next.
UserKinds == {"pass", "short", "tag", "throw", "catch"}
\* A plugin without initRuntimeAdapter, one with a recording hook, BodyLimitPlugin.
PluginKinds == {"plain", "hook", "bodyLimit"}

SeqsUpTo(S, n) == UNION {[1..k -> S] : k \in 0..n}

Headers ==
  {[kind |-> "absent", n |-> 0], [kind |-> "text", n |-> 0]}
    \cup {[kind |-> "num", n |-> k] : k \in 0..MaxHeader}

RECURSIVE Sum(_)
Sum(s) == IF s = <<>> THEN 0 ELSE Head(s) + Sum(Tail(s))

\* A result travelling up the chain: a value ({matched, response?}) or a thrown
\* error; origin is the interceptor that made it (0: the core function), tags the
\* interceptors that transformed it since.
NoResult == [status |-> "none", matched |-> FALSE, response |-> "absent",
             options |-> "", origin |-> 0, tags |-> <<>>, error |-> ""]
Value(m, r, o, by) == [status |-> "ok", matched |-> m, response |-> r,
                       options |-> o, origin |-> by, tags |-> <<>>, error |-> ""]
Thrown(e, by) == [status |-> "error", matched |-> FALSE, response |-> "absent",
                  options |-> "", origin |-> by, tags |-> <<>>, error |-> e]

\* The resolved handle options a caller may give: context, with or without prefix.
HandleOptions == {("context" :> "ctx"), ("prefix" :> "/api" @@ "context" :> "ctx")}

\* The fields the adapter adds for its interceptors and strips again for the
\* standard handler.
AdapterFields ==
  IF adapter = "node"
    THEN {"request", "response", "sendStandardResponseOptions"}
    ELSE {"request", "toFetchResponseOptions"}

\* { ...handleOptions, request, response, sendStandardResponseOptions } (Node),
\* { ...handleOptions, request, toFetchResponseOptions } (Fetch).
InterceptorOptions ==
  IF adapter = "node"
    THEN ("request" :> NativeRequest @@ "response" :> NativeResponse
            @@ "sendStandardResponseOptions" :> responseOptions @@ handleOptions)
    ELSE ("request" :> NativeRequest
            @@ "toFetchResponseOptions" :> responseOptions @@ handleOptions)

\* A core function that hands the whole interceptor options on.
RestOptions_Everything(o) == o

\* The rest of the destructuring ({ request, response, ..., ...options }).
RestOptions(o) == [k \in DOMAIN o \ AdapterFields |-> o[k]]

\* toStandardLazyRequest: the standard request made of a native request.
StandardLazyRequest(r) == <<"standard", r>>

\* A limiter that hands the request it was given on to next.
LimitedRequest_Same(r) == r

\* new Request(options.request, { body: reader }): the request whose body is the
\* size-checked stream.
LimitedRequest(r) == "limited"

\* A limiter that wraps every request, with or without body.
Guards_Always(b) == TRUE

\* if (!options.request.body) return options.next(): the limiter guards a
\* request only when it has a body.
Guards(b) == b

\* Number(content-length): undefined (Node) is NaN, null (Fetch) is 0, a
\* non-numeric text is NaN.
Number(h) ==
  CASE h.kind = "num" -> [nan |-> FALSE, n |-> h.n]
    [] h.kind = "text" -> [nan |-> TRUE, n |-> 0]
    [] OTHER -> [nan |-> adapter = "node", n |-> 0]

\* x > limit in JavaScript: false for NaN.
GreaterThan(x, limit) == ~x.nan /\ x.n > limit

\* A header check that already refuses a declared length equal to the limit.
HeaderTooLarge_AtLeast ==
  ~Number(contentLength).nan /\ Number(contentLength).n >= maxBodySize

\* Number(headers['content-length']) > this.maxBodySize
HeaderTooLarge == GreaterThan(Number(contentLength), maxBodySize)

\* A size check that lets one byte more than the limit through.
Exceeds_OffByOne(size) == size > maxBodySize + 1

\* A size check that already refuses a running total equal to the limit.
Exceeds_AtLeast(size) == size >= maxBodySize

\* A size check that is skipped when the request declares a numeric length.
Exceeds_OnlyUndeclared(size) == contentLength.kind # "num" /\ size > maxBodySize

\* currentBodySize > this.maxBodySize
Exceeds(size) == size > maxBodySize

\* ------------------------------------------------------------ streams
\* closeCalls counts the calls of controller.close().
NoStream == [state |-> "none", queue |-> <<>>, closeRequested |-> FALSE, error |-> "",
             closeCalls |-> 0]
NewStream == [NoStream EXCEPT !.state = "readable"]

CanCloseOrEnqueue(w) == w.state = "readable" /\ ~w.closeRequested

\* controller.error(e): a readable stream drops its queue and becomes errored;
\* any other stream is left as it is.
ControllerError(w, e) ==
  IF w.state # "readable" THEN w
  ELSE [w EXCEPT !.state = "errored", !.queue = <<>>, !.error = e]

\* controller.enqueue(chunk)
ControllerEnqueue(w, c) == [w EXCEPT !.queue = Append(@, c)]

\* A close that ends the stream at once and loses the chunks still queued.
ControllerClose_DropsQueue(w) ==
  LET c == [w EXCEPT !.closeCalls = @ + 1] IN
  IF ~CanCloseOrEnqueue(c) THEN ControllerError(c, "TypeError")
  ELSE [c EXCEPT !.state = "closed", !.queue = <<>>]

\* A close that succeeds on an errored stream and ends it normally.
ControllerClose_Forces(w) ==
  LET c == [w EXCEPT !.closeCalls = @ + 1] IN
  IF c.state = "errored" THEN [c EXCEPT !.state = "closed", !.error = ""]
  ELSE IF ~CanCloseOrEnqueue(c) THEN ControllerError(c, "TypeError")
  ELSE IF c.queue = <<>> THEN [c EXCEPT !.state = "closed"]
  ELSE [c EXCEPT !.closeRequested = TRUE]

\* controller.close() in the finally block of start. On a stream that can no
\* longer be closed it throws a TypeError, which rejects start's promise; the
\* stream answers that rejection with controller.error(TypeError).
ControllerClose(w) ==
  LET c == [w EXCEPT !.closeCalls = @ + 1] IN
  IF ~CanCloseOrEnqueue(c) THEN ControllerError(c, "TypeError")
  ELSE IF c.queue = <<>> THEN [c EXCEPT !.state = "closed"]
  ELSE [c EXCEPT !.closeRequested = TRUE]

\* The consumer takes the head of the queue; a close requested earlier takes
\* effect once the queue is empty.
Dequeue(w) ==
  LET q == Tail(w.queue) IN
  [w EXCEPT !.queue = q,
            !.state = IF q = <<>> /\ w.closeRequested THEN "closed" ELSE @]

\* ------------------------------------------------------------ limiter
\* A counter that starts over with the chunk after the one that tripped it.
Counted_Restart(total, chunk) == IF total > maxBodySize THEN chunk ELSE total + chunk

\* currentBodySize += chunk.length: the running total only grows; nothing
\* resets it, a trip included.
Counted(total, chunk) == total + chunk

NoLimiter == [installed |-> FALSE, isHeaderChecked |-> FALSE,
              currentBodySize |-> 0, reading |-> FALSE]
NoRejection == [by |-> "none", at |-> 0, seen |-> <<>>]
\* PAYLOAD_TOO_LARGE raised by `why` when the raw body had produced `n` chunks
\* of which `fw` had been passed on. The first rejection of a call is kept.
Reject(why, n, fw) ==
  IF rejection.by # "none" THEN rejection
  ELSE [by |-> why, at |-> n, seen |-> fw]

\* ------------------------------------------------------------ construction
OnePerKind(ps) == Cardinality({i \in DOMAIN ps : ps[i] = "bodyLimit"}) <= 1

\* The state after `new Handler(standardHandler, options)` has been entered and
\* before the first plugin is initialised, for a request and a caller drawn
\* from the given sets.
InitWith(limits, headers, bodies, callers, pluginLists, interceptorLists) ==
  /\ adapter \in {"node", "fetch"}
  /\ maxBodySize \in limits
  /\ contentLength \in headers
  /\ hasBody \in (IF adapter = "node" THEN {TRUE} ELSE BOOLEAN)
  /\ body \in (IF hasBody THEN bodies ELSE {<<>>})
  /\ handleOptions \in callers
  /\ plugins \in {ps \in pluginLists : OnePerKind(ps)}
  /\ options \in [adapterInterceptors : interceptorLists]
  /\ initCalls = <<>>
  /\ cursor = 1
  /\ adapterInterceptors = <<>>
  /\ responseOptions = "unset"
  /\ pc = "new"
  /\ index = 0
  /\ awaiting = <<>>
  /\ current = <<>>
  /\ result = NoResult
  /\ standardResult = "none"
  /\ sent = "idle"
  /\ mainResult = NoResult
  /\ trace = <<>>
  /\ interceptorCalls = <<>>
  /\ convertCalls = <<>>
  /\ standardCalls = <<>>
  /\ responseCalls = <<>>
  /\ limiter = NoLimiter
  /\ rawRead = 0
  /\ rawEnded = FALSE
  /\ forwarded = <<>>
  /\ wrapped = NoStream
  /\ bodyRequested = FALSE
  /\ delivered = <<>>
  /\ consumer = "idle"
  /\ rejection = NoRejection
  /\ procedure = "idle"
  /\ aborted = FALSE
  /\ rawReader = "none"

\* plugin.initRuntimeAdapter?.(options) of one plugin: the options object after
\* the call. BodyLimitPlugin pushes its interceptor (options.adapterInterceptors
\* ??= [], then push); a hook only looks at the options; a plugin of kind push
\* pushes an interceptor that calls next, as BodyLimitPlugin pushes its own.
PluginInit(kind, o) ==
  CASE kind = "bodyLimit" -> [o EXCEPT !.adapterInterceptors = Append(@, "bodyLimit")]
    [] kind = "push" -> [o EXCEPT !.adapterInterceptors = Append(@, "pass")]
    [] OTHER -> o

\* A loop that calls initRuntimeAdapter without the optional chaining.
DefinesInit_Always(kind) == TRUE

\* Whether a plugin defines initRuntimeAdapter.
DefinesInit(kind) == kind # "plain"

\* One turn of the composite plugin's loop over this.plugins.
initRuntimeAdapter ==
  /\ pc = "new"
  /\ cursor <= Len(plugins)
  /\ IF DefinesInit(plugins[cursor])
       THEN /\ initCalls' = Append(initCalls, [plugin |-> cursor, options |-> OptionsRef])
            /\ options' = PluginInit(plugins[cursor], options)
       ELSE UNCHANGED <<initCalls, options>>
  /\ cursor' = cursor + 1
  /\ UNCHANGED <<guardVars, otherVars, configVars, adapterInterceptors, responseOptions, pc, callVars, bodyVars>>

\* The rest of the constructor, once the loop is over: the handler fixes its
\* interceptor list (toArray) and its response options (the options object).
Construct ==
  /\ pc = "new"
  /\ cursor > Len(plugins)
  /\ adapterInterceptors' = options.adapterInterceptors
  /\ responseOptions' = OptionsRef
  /\ pc' = "ready"
  /\ UNCHANGED <<guardVars, otherVars, configVars, options, initCalls, cursor, callVars, bodyVars>>

\* ------------------------------------------------------------ handle
Event(e, i) == [ev |-> e, i |-> i]

\* The result an interceptor makes up itself.
OwnResult(i, m) ==
  Value(m, IF adapter = "node" THEN "absent" ELSE IF m THEN "own" ELSE "undefined", "", i)

\* handle(request, response, ...rest): intercept is called with the handler's
\* interceptors and the interceptor options.
handle ==
  /\ pc = "ready"
  /\ current' = InterceptorOptions
  /\ index' = 0
  /\ pc' = "next"
  /\ UNCHANGED <<guardVars, otherVars, configVars, ctorVars, awaiting, result, standardResult, sent, mainResult, trace,
                 interceptorCalls, convertCalls, standardCalls, responseCalls, bodyVars>>

\* A chain that goes on to the next step whatever the interceptor did.
CallsNext_Always(kind) == TRUE

\* Whether a user interceptor of this kind calls next.
CallsNext(kind) == kind \in {"pass", "tag", "catch"}

\* intercept's next: the interceptor at position index + 1 is invoked with the
\* current options. A user interceptor either calls next (pass, tag, catch),
\* returns a result of its own (short) or throws.
UserInterceptor ==
  /\ pc = "next"
  /\ index < Len(adapterInterceptors)
  /\ adapterInterceptors[index + 1] \in UserKinds
  /\ LET i == index + 1
         kind == adapterInterceptors[i]
     IN /\ index' = i
        /\ interceptorCalls' = Append(interceptorCalls, current)
        /\ IF CallsNext(kind)
             THEN /\ awaiting' = Append(awaiting, i)
                  /\ trace' = Append(trace, Event("enter", i))
                  /\ pc' = "next"
                  /\ UNCHANGED result
             ELSE /\ trace' = trace \o <<Event("enter", i), Event("exit", i)>>
                  /\ pc' = "return"
                  /\ UNCHANGED awaiting
                  /\ IF kind = "short"
                       THEN \E m \in BOOLEAN : result' = OwnResult(i, m)
                       ELSE result' = Thrown("interceptor", i)
  /\ UNCHANGED <<guardVars, otherVars, configVars, ctorVars, current, standardResult, sent, mainResult,
                 convertCalls, standardCalls, responseCalls, bodyVars>>

\* The Node BodyLimitPlugin interceptor: it replaces request.emit by the
\* checking emit and returns options.next().
NodeBodyLimit ==
  /\ pc = "next"
  /\ index < Len(adapterInterceptors)
  /\ adapterInterceptors[index + 1] = "bodyLimit"
  /\ adapter = "node"
  /\ index' = index + 1
  /\ interceptorCalls' = Append(interceptorCalls, current)
  /\ awaiting' = Append(awaiting, index + 1)
  /\ trace' = Append(trace, Event("enter", index + 1))
  /\ limiter' = [NoLimiter EXCEPT !.installed = TRUE]
  /\ pc' = "next"
  /\ UNCHANGED <<guardVars, otherVars, configVars, ctorVars, current, result, standardResult, sent,
                 mainResult, convertCalls, standardCalls, responseCalls, rawRead, rawEnded, forwarded, wrapped,
                 bodyRequested, delivered, consumer, rejection>>

\* The wrapping stream after the synchronous part of start: the header check,
\* and for a header over the limit controller.error, return and the finally.
StartStream ==
  IF HeaderTooLarge
    THEN ControllerClose(ControllerError(NewStream, "PAYLOAD_TOO_LARGE"))
    ELSE NewStream

\* The Fetch BodyLimitPlugin interceptor: a request without body goes on as it
\* is; otherwise the raw body gets a reader, the wrapping stream is built (its
\* start runs at once, up to the first await) and next is called with a new
\* request around the wrapping stream.
FetchBodyLimit ==
  /\ pc = "next"
  /\ index < Len(adapterInterceptors)
  /\ adapterInterceptors[index + 1] = "bodyLimit"
  /\ adapter = "fetch"
  /\ index' = index + 1
  /\ interceptorCalls' = Append(interceptorCalls, current)
  /\ awaiting' = Append(awaiting, index + 1)
  /\ trace' = Append(trace, Event("enter", index + 1))
  /\ pc' = "next"
  /\ IF ~Guards(hasBody)
       THEN UNCHANGED <<current, limiter, wrapped, rejection, rawReader>>
       ELSE /\ rawReader' = "held"
            /\ limiter' = [NoLimiter EXCEPT !.installed = TRUE,
                                            !.reading = ~HeaderTooLarge]
            /\ wrapped' = StartStream
            /\ rejection' = IF HeaderTooLarge
                              THEN Reject("header", rawRead, forwarded)
                              ELSE rejection
            /\ current' = [current EXCEPT !["request"] = LimitedRequest(@)]
  /\ UNCHANGED <<procedure, aborted, otherVars, configVars, ctorVars, result, standardResult, sent, mainResult,
                 convertCalls, standardCalls, responseCalls, rawRead, rawEnded, forwarded,
                 bodyRequested, delivered, consumer>>

\* A core function that converts the request a second time for the standard
\* handler.
Main_ConvertsTwice ==
  /\ pc = "next"
  /\ index = Len(adapterInterceptors)
  /\ trace' = Append(trace, Event("main", 0))
  /\ convertCalls' = convertCalls \o
       <<<<current["request"], current["response"]>>,
         <<current["request"], current["response"]>>>>
  /\ standardCalls' = Append(standardCalls,
       [request |-> StandardLazyRequest(current["request"]),
        options |-> RestOptions(current)])
  /\ pc' = "standard"
  /\ UNCHANGED <<guardVars, otherVars, configVars, ctorVars, index, awaiting, current, result, standardResult,
                 sent, mainResult, interceptorCalls, responseCalls, bodyVars>>

\* The core function, up to its first await: the request is converted and the
\* standard handler is called with the standard request and the rest options.
Main ==
  /\ pc = "next"
  /\ index = Len(adapterInterceptors)
  /\ trace' = Append(trace, Event("main", 0))
  /\ convertCalls' = Append(convertCalls,
       IF adapter = "node" THEN <<current["request"], current["response"]>>
                           ELSE <<current["request"]>>)
  /\ \E converted \in BOOLEAN :
       IF converted
         THEN /\ standardCalls' = Append(standardCalls,
                   [request |-> StandardLazyRequest(current["request"]),
                    options |-> RestOptions(current)])
              /\ pc' = "standard"
              /\ UNCHANGED <<result, mainResult>>
         ELSE /\ mainResult' = Thrown("convert", 0)
              /\ result' = Thrown("convert", 0)
              /\ pc' = "return"
              /\ UNCHANGED standardCalls
  /\ UNCHANGED <<guardVars, otherVars, configVars, ctorVars, index, awaiting, current, standardResult,
                 sent, interceptorCalls, responseCalls, bodyVars>>

\* A core function that reports a request as matched although the standard
\* handler did not match it.
Unmatched_Matched ==
  Value(TRUE, IF adapter = "node" THEN "absent" ELSE "undefined", "", 0)

\* What the core function returns for a request the standard handler did not
\* match: { matched: false } (Node), the standard handler's own result (Fetch).
Unmatched ==
  Value(FALSE, IF adapter = "node" THEN "absent" ELSE "undefined", "", 0)

\* Node, matched, without the await: the core function returns { matched: true }
\* while sendStandardResponse is still running.
NodeRespond_NoAwait ==
  /\ responseCalls' = Append(responseCalls,
       [target |-> current["response"], response |-> StandardResponse,
        options |-> current["sendStandardResponseOptions"]])
  /\ sent' = "pending"
  /\ mainResult' = Value(TRUE, "absent", "", 0)
  /\ result' = mainResult'
  /\ pc' = "return"

\* Node, matched: await sendStandardResponse(response, result.response,
\* sendStandardResponseOptions).
NodeRespond ==
  /\ responseCalls' = Append(responseCalls,
       [target |-> current["response"], response |-> StandardResponse,
        options |-> current["sendStandardResponseOptions"]])
  /\ sent' = "pending"
  /\ pc' = "send"
  /\ UNCHANGED <<mainResult, result>>

\* Fetch, matched: return { matched: true, response: toFetchResponse(
\* result.response, toFetchResponseOptions) }.
FetchRespond ==
  /\ responseCalls' = Append(responseCalls,
       [target |-> "none", response |-> StandardResponse,
        options |-> current["toFetchResponseOptions"]])
  /\ mainResult' = Value(TRUE, StandardResponse, current["toFetchResponseOptions"], 0)
  /\ result' = mainResult'
  /\ pc' = "return"
  /\ UNCHANGED sent

\* What the reader of the body can end with instead of the end of the body.
BodyErrors == {"PAYLOAD_TOO_LARGE", "TypeError"}

\* The input of the call is decoded: there is no body, or it was read to its end.
Decoded == ~hasBody \/ consumer = "end"

\* A standard handler that runs the procedure without waiting for the body.
StandardOutcomes_Eager == {"throws", "unmatched", "matched"}

\* How standardHandler.handle can settle in the current state. It finds no
\* procedure without touching the body (unmatched); it decodes the input from
\* the whole body and runs the procedure (matched); a body that fails while it
\* is read is answered with the error response, the procedure not run
\* (refused); or it rejects.
StandardOutcomes ==
  {"throws"}
    \cup (IF ~bodyRequested THEN {"unmatched"} ELSE {})
    \cup (IF Decoded THEN {"matched"} ELSE {})
    \cup (IF consumer \in BodyErrors THEN {"refused"} ELSE {})

\* The error standardHandler.handle rejects with.
StandardError == IF consumer \in BodyErrors THEN consumer ELSE "standard"

\* The standard handler's promise settles. Not matched: the core function
\* returns. Matched: Node calls sendStandardResponse and awaits it, Fetch
\* converts the response and returns. A rejection leaves the core function.
StandardSettles ==
  /\ pc = "standard"
  /\ \E outcome \in StandardOutcomes :
       /\ standardResult' = (IF outcome = "refused" THEN "matched" ELSE outcome)
       /\ CASE outcome = "unmatched" ->
                 /\ mainResult' = Unmatched
                 /\ result' = Unmatched
                 /\ pc' = "return"
                 /\ UNCHANGED <<responseCalls, sent, procedure>>
            [] outcome = "throws" ->
                 /\ mainResult' = Thrown(StandardError, 0)
                 /\ result' = Thrown(StandardError, 0)
                 /\ pc' = "return"
                 /\ procedure' \in (IF Decoded THEN {"idle", "ran"} ELSE {"idle"})
                 /\ UNCHANGED <<responseCalls, sent>>
            [] OTHER ->
                 /\ procedure' = (IF outcome = "refused" THEN "refused" ELSE "ran")
                 /\ IF adapter = "node" THEN NodeRespond ELSE FetchRespond
  /\ UNCHANGED <<aborted, rawReader, otherVars, configVars, ctorVars, index, awaiting, current, trace,
                 interceptorCalls, convertCalls, standardCalls, bodyVars>>

\* A core function that swallows the error of the send.
SendSettles_Swallows ==
  /\ pc = "send"
  /\ \E ok \in BOOLEAN :
       /\ sent' = IF ok THEN "done" ELSE "failed"
       /\ mainResult' = Value(TRUE, "absent", "", 0)
  /\ result' = mainResult'
  /\ pc' = "return"
  /\ UNCHANGED <<guardVars, otherVars, configVars, ctorVars, index, awaiting, current, standardResult, trace,
                 interceptorCalls, convertCalls, standardCalls, responseCalls, bodyVars>>

\* Node: the promise of sendStandardResponse settles; the core function returns
\* { matched: true } or leaves with the error of the send.
SendSettles ==
  /\ pc = "send"
  /\ \E ok \in BOOLEAN :
       /\ sent' = IF ok THEN "done" ELSE "failed"
       /\ mainResult' = IF ok THEN Value(TRUE, "absent", "", 0) ELSE Thrown("send", 0)
  /\ result' = mainResult'
  /\ pc' = "return"
  /\ UNCHANGED <<guardVars, otherVars, configVars, ctorVars, index, awaiting, current, standardResult, trace,
                 interceptorCalls, convertCalls, standardCalls, responseCalls, bodyVars>>

\* What an interceptor that called next makes of the outcome of next.
Outcome(kind, i, r) ==
  CASE kind = "tag" /\ r.status = "ok" -> [r EXCEPT !.tags = Append(@, i)]
    [] kind = "catch" /\ r.status = "error" -> OwnResult(i, FALSE)
    [] OTHER -> r

\* An unwinding that resumes the outermost suspended interceptor first.
InterceptorReturns_OutermostFirst ==
  /\ pc = "return"
  /\ awaiting # <<>>
  /\ LET i == awaiting[1] IN
       /\ result' = Outcome(adapterInterceptors[i], i, result)
       /\ trace' = Append(trace, Event("exit", i))
       /\ awaiting' = Tail(awaiting)
  /\ UNCHANGED <<guardVars, otherVars, configVars, ctorVars, pc, index, current, standardResult, sent,
                 mainResult, interceptorCalls, convertCalls, standardCalls,
                 responseCalls, bodyVars>>

\* The innermost suspended interceptor resumes with the outcome of next and
\* returns (or rethrows).
InterceptorReturns ==
  /\ pc = "return"
  /\ awaiting # <<>>
  /\ LET i == awaiting[Len(awaiting)] IN
       /\ result' = Outcome(adapterInterceptors[i], i, result)
       /\ trace' = Append(trace, Event("exit", i))
       /\ awaiting' = SubSeq(awaiting, 1, Len(awaiting) - 1)
  /\ UNCHANGED <<guardVars, otherVars, configVars, ctorVars, pc, index, current, standardResult, sent,
                 mainResult, interceptorCalls, convertCalls, standardCalls,
                 responseCalls, bodyVars>>

\* The promise of handle settles with the outcome of the outermost step.
Settle ==
  /\ pc = "return"
  /\ awaiting = <<>>
  /\ pc' = "done"
  /\ UNCHANGED <<guardVars, otherVars, configVars, ctorVars, callVars, bodyVars>>

\* ------------------------------------------------------------ body
\* The standard handler starts to read the lazily read body of the standard
\* request (Node: listeners are attached and the request starts to flow).
ReadBody ==
  /\ pc = "standard"
  /\ hasBody
  /\ ~bodyRequested
  /\ bodyRequested' = TRUE
  /\ consumer' = "reading"
  /\ UNCHANGED <<guardVars, otherVars, configVars, ctorVars, pc, callVars, limiter, rawRead, rawEnded,
                 forwarded, wrapped, delivered, rejection>>

\* An error thrown by emit that goes to the stream machinery instead of the
\* reader of the body, which keeps waiting.
ThrowReaches_Emitter(e) == "reading"

\* Where an error thrown by the patched emit goes: 'data' is emitted inside
\* the read the body reader of the standard handler makes, so the reader ends
\* with the error.
ThrowReaches(e) == e

\* Node: the body reader takes the next chunk and the request emits 'data'.
\* With the limiter in place the call goes through the patched emit:
\* checkHeader, the running total, the limit check, and only then originalEmit,
\* which hands the chunk to the listeners. A throw leaves emit before
\* originalEmit is reached.
EmitData ==
  /\ adapter = "node"
  /\ pc = "standard"
  /\ consumer = "reading"
  /\ ~rawEnded
  /\ rawRead < Len(body)
  /\ rawRead' = rawRead + 1
  /\ LET chunk == body[rawRead + 1]
         size == Counted(limiter.currentBodySize, chunk)
     IN IF ~limiter.installed
          THEN /\ delivered' = Append(delivered, chunk)
               /\ UNCHANGED <<limiter, forwarded, rejection, consumer>>
          ELSE IF ~limiter.isHeaderChecked /\ HeaderTooLarge
            THEN /\ rejection' = Reject("header", rawRead + 1, forwarded)
                 /\ consumer' = ThrowReaches("PAYLOAD_TOO_LARGE")
                 /\ UNCHANGED <<limiter, forwarded, delivered>>
            ELSE /\ limiter' = [limiter EXCEPT !.isHeaderChecked = TRUE,
                                               !.currentBodySize = size]
                 /\ IF Exceeds(size)
                      THEN /\ rejection' = Reject("size", rawRead + 1, forwarded)
                           /\ consumer' = ThrowReaches("PAYLOAD_TOO_LARGE")
                           /\ UNCHANGED <<forwarded, delivered>>
                      ELSE /\ forwarded' = Append(forwarded, chunk)
                           /\ delivered' = Append(delivered, chunk)
                           /\ UNCHANGED <<rejection, consumer>>
  /\ UNCHANGED <<guardVars, otherVars, configVars, ctorVars, pc, callVars, rawEnded, wrapped,
                 bodyRequested>>

\* Node: the request emits 'end'; any event but 'data' goes straight to
\* originalEmit.
EmitEnd ==
  /\ adapter = "node"
  /\ pc = "standard"
  /\ consumer = "reading"
  /\ ~rawEnded
  /\ rawRead = Len(body)
  /\ rawEnded' = TRUE
  /\ consumer' = "end"
  /\ UNCHANGED <<guardVars, otherVars, configVars, ctorVars, pc, callVars, limiter, rawRead, forwarded,
                 wrapped, bodyRequested, delivered, rejection>>

\* Fetch: one turn of the loop in start. rawReader.read() resolves with done
\* (break, finally) or with a chunk: the running total grows, and the chunk is
\* either refused (controller.error, break, finally) or enqueued.
RawRead ==
  /\ adapter = "fetch"
  /\ limiter.reading
  /\ IF rawRead = Len(body)
       THEN /\ rawEnded' = TRUE
            /\ wrapped' = ControllerClose(wrapped)
            /\ limiter' = [limiter EXCEPT !.reading = FALSE]
            /\ UNCHANGED <<rawRead, forwarded, rejection>>
       ELSE LET chunk == body[rawRead + 1]
                size == Counted(limiter.currentBodySize, chunk)
            IN /\ rawRead' = rawRead + 1
               /\ UNCHANGED rawEnded
               /\ IF Exceeds(size)
                    THEN /\ wrapped' = ControllerClose(
                                         ControllerError(wrapped, "PAYLOAD_TOO_LARGE"))
                         /\ limiter' = [limiter EXCEPT !.currentBodySize = size,
                                                       !.reading = FALSE]
                         /\ rejection' = Reject("size", rawRead + 1, forwarded)
                         /\ UNCHANGED forwarded
                    ELSE /\ wrapped' = ControllerEnqueue(wrapped, chunk)
                         /\ limiter' = [limiter EXCEPT !.currentBodySize = size]
                         /\ forwarded' = Append(forwarded, chunk)
                         /\ UNCHANGED rejection
  /\ UNCHANGED <<guardVars, otherVars, configVars, ctorVars, pc, callVars, bodyRequested, delivered, consumer>>

\* Fetch: the downstream consumer reads the body of the request it was given:
\* the wrapping stream when the limiter replaced the request, the raw body
\* otherwise. It gets a chunk, the end of the body or the stream's error.
Consume ==
  /\ adapter = "fetch"
  /\ pc = "standard"
  /\ consumer = "reading"
  /\ IF limiter.installed
       THEN /\ wrapped.queue # <<>> \/ wrapped.state \in {"closed", "errored"}
            /\ IF wrapped.queue # <<>>
                 THEN /\ delivered' = Append(delivered, Head(wrapped.queue))
                      /\ wrapped' = Dequeue(wrapped)
                      /\ UNCHANGED consumer
                 ELSE /\ consumer' = IF wrapped.state = "closed" THEN "end"
                                     ELSE wrapped.error
                      /\ UNCHANGED <<delivered, wrapped>>
            /\ UNCHANGED <<rawRead, rawEnded>>
       ELSE /\ IF rawRead < Len(body)
                 THEN /\ rawRead' = rawRead + 1
                      /\ delivered' = Append(delivered, body[rawRead + 1])
                      /\ UNCHANGED <<rawEnded, consumer>>
                 ELSE /\ rawEnded' = TRUE
                      /\ consumer' = "end"
                      /\ UNCHANGED <<rawRead, delivered>>
            /\ UNCHANGED wrapped
  /\ UNCHANGED <<guardVars, otherVars, configVars, ctorVars, pc, callVars, limiter, forwarded,
                 bodyRequested, rejection>>

\* Node: the request goes on emitting 'data' after the limiter rejected it.
\* The patched emit is still in place: the header check throws again as long
\* as it never passed, and the running total is checked again.
EmitLate ==
  /\ adapter = "node"
  /\ limiter.installed
  /\ rejection.by # "none"
  /\ ~rawEnded
  /\ rawRead < Len(body)
  /\ rawRead' = rawRead + 1
  /\ LET chunk == body[rawRead + 1]
         size == Counted(limiter.currentBodySize, chunk)
     IN IF ~limiter.isHeaderChecked /\ HeaderTooLarge
          THEN UNCHANGED <<limiter, forwarded, delivered>>
          ELSE /\ limiter' = [limiter EXCEPT !.isHeaderChecked = TRUE,
                                             !.currentBodySize = size]
               /\ IF Exceeds(size)
                    THEN UNCHANGED <<forwarded, delivered>>
                    ELSE /\ forwarded' = Append(forwarded, chunk)
                         /\ delivered' = Append(delivered, chunk)
  /\ UNCHANGED <<guardVars, otherVars, configVars, ctorVars, pc, callVars, rawEnded, wrapped,
                 bodyRequested, consumer, rejection>>

\* Fetch: rawReader.read() rejects (the transport failed). start has no catch:
\* the finally block closes the wrapping stream, then the promise of start
\* rejects with the read error and the stream answers that rejection with
\* controller.error, which only a stream still readable takes.
RawFails ==
  /\ adapter = "fetch"
  /\ limiter.reading
  /\ wrapped' = ControllerError(ControllerClose(wrapped), "ReadError")
  /\ limiter' = [limiter EXCEPT !.reading = FALSE]
  /\ UNCHANGED <<guardVars, otherVars, configVars, ctorVars, pc, callVars, rawRead, rawEnded,
                 forwarded, bodyRequested, delivered, consumer, rejection>>

\* The abort signal of the call fires (the client went away) while the call is
\* in flight. Neither limiter refers to the signal.
Abort ==
  /\ pc \in {"next", "standard", "send"}
  /\ ~aborted
  /\ aborted' = TRUE
  /\ UNCHANGED <<procedure, rawReader, otherVars, configVars, ctorVars, pc, callVars, bodyVars>>

\* ------------------------------------------------------------ client
\* Property names a caller accesses, and a key that is not a string.
Keys == {[string |-> TRUE, name |-> "planet"], [string |-> TRUE, name |-> "list"]}
SymbolKey == [string |-> FALSE, name |-> "toStringTag"]
\* Inputs and call options a caller gives; the options may be left out.
Inputs == {"in1", "in2"}
FriendlyOptions == {[given |-> FALSE, context |-> ""], [given |-> TRUE, context |-> "c"]}
\* What link.call may answer with: a value or a rejection.
LinkResults == {[status |-> "ok", value |-> "out1"], [status |-> "ok", value |-> "out2"],
                [status |-> "error", value |-> "E"]}
Pending == [status |-> "pending", value |-> ""]

\* The options createORPCClient is called with by the application.
ClientOptions ==
  {[given |-> FALSE, hasPath |-> FALSE, path |-> <<>>],
   [given |-> TRUE, hasPath |-> FALSE, path |-> <<>>],
   [given |-> TRUE, hasPath |-> TRUE, path |-> <<>>],
   [given |-> TRUE, hasPath |-> TRUE, path |-> <<"api">>]}

NoInvocation == [keys |-> <<>>, input |-> "",
                 options |-> [given |-> FALSE, context |-> ""], returned |-> Pending]
NoLinkCall == [path |-> <<>>, input |-> "",
               options |-> [resolved |-> FALSE, context |-> ""], result |-> Pending]
NoClientYet == [made |-> FALSE, path |-> <<>>, keys |-> <<>>]

\* No client is modelled.
NoClient ==
  /\ clientOptions = [given |-> FALSE, hasPath |-> FALSE, path |-> <<>>]
  /\ client = NoClientYet
  /\ lastGet = "none"
  /\ invoked = 0
  /\ linkCount = 0
  /\ lastInvocation = NoInvocation
  /\ lastLinkCall = NoLinkCall

\* const path = options?.path ?? []
PathOf(o) == IF o.given /\ o.hasPath THEN o.path ELSE <<>>

\* A path that puts the accessed key in front.
NextPath_Prepend(path, key) == <<key.name>> \o path

\* path: [...path, key]
NextPath(path, key) == Append(path, key.name)

\* resolveFriendlyClientOptions(options), with options = {} when left out.
resolveFriendlyClientOptions(o) ==
  [resolved |-> TRUE, context |-> IF o.given THEN o.context ELSE ""]

\* The application creates its client.
createORPCClient ==
  /\ ~client.made
  /\ \E o \in ClientOptions :
       /\ clientOptions' = o
       /\ client' = [made |-> TRUE, path |-> PathOf(o), keys |-> <<>>]
  /\ UNCHANGED <<lastGet, invoked, linkCount, lastInvocation, lastLinkCall,
                 serverVars, chainVars>>

\* The client the application created, which it keeps.
RootClient == [made |-> TRUE, path |-> PathOf(clientOptions), keys |-> <<>>]

\* The get trap of the proxy: a property of the client held, or of the root
\* client, is accessed. A key that is not a string is answered by the target;
\* a string key is answered by a new client with the longer path.
get ==
  /\ client.made
  /\ \E target \in {client, RootClient}, key \in Keys \cup {SymbolKey} :
       IF ~key.string
         THEN /\ lastGet' = "reflect"
              /\ UNCHANGED client
         ELSE /\ Len(target.keys) < MaxPath
              /\ client' = [made |-> TRUE, path |-> NextPath(target.path, key),
                            keys |-> Append(target.keys, key.name)]
              /\ lastGet' = "client"
  /\ UNCHANGED <<clientOptions, invoked, linkCount, lastInvocation, lastLinkCall,
                 serverVars, chainVars>>

\* The client held is called: procedureClient calls link.call and awaits it.
procedureClient ==
  /\ client.made
  /\ invoked < MaxInvocations
  /\ \E input \in Inputs, o \in FriendlyOptions :
       /\ lastInvocation' = [keys |-> client.keys, input |-> input, options |-> o,
                             returned |-> Pending]
       /\ lastLinkCall' = [path |-> client.path, input |-> input,
                           options |-> resolveFriendlyClientOptions(o),
                           result |-> Pending]
  /\ invoked' = invoked + 1
  /\ linkCount' = linkCount + 1
  /\ UNCHANGED <<clientOptions, client, lastGet, serverVars, chainVars>>

\* link.call settles and procedureClient returns what it settled with.
LinkSettles ==
  /\ linkCount > 0
  /\ lastLinkCall.result = Pending
  /\ \E r \in LinkResults :
       /\ lastLinkCall' = [lastLinkCall EXCEPT !.result = r]
       /\ lastInvocation' = [lastInvocation EXCEPT !.returned = r]
  /\ UNCHANGED <<clientOptions, client, lastGet, invoked, linkCount,
                 serverVars, chainVars>>

NextClient ==
  \/ createORPCClient
  \/ get
  \/ procedureClient
  \/ LinkSettles

\* ------------------------------------------------------------ middleware
\* What a middleware does: call next, call next with additional context, or
\* return output(value).
MiddlewareKinds == {"next", "extend", "output"}
Outputs == {"v1", "v2"}
NoShortCircuit == [at |-> 0, value |-> ""]
NoChainResult == [output |-> "", context |-> {-1}]

\* No procedure call is modelled.
NoChain ==
  /\ middlewares = <<>>
  /\ chainPc = "none"
  /\ ran = <<>>
  /\ suspended = <<>>
  /\ context = {}
  /\ handlerRan = FALSE
  /\ shortCircuit = NoShortCircuit
  /\ chainResult = NoChainResult

\* An output helper that hands the incoming marker on as context.
middlewareOutputFn_Leaks(output) == [output |-> output, context |-> {0}]

\* return { output, context: {} }
middlewareOutputFn(output) == [output |-> output, context |-> {}]

\* The next middleware of the list runs with the context so far.
RunMiddleware ==
  /\ chainPc = "chain"
  /\ Len(ran) < Len(middlewares)
  /\ LET i == Len(ran) + 1
         kind == middlewares[i]
     IN /\ ran' = Append(ran, i)
        /\ IF kind = "output"
             THEN /\ \E v \in Outputs :
                       /\ chainResult' = middlewareOutputFn(v)
                       /\ shortCircuit' = [at |-> i, value |-> v]
                  /\ chainPc' = "unwind"
                  /\ UNCHANGED <<suspended, context>>
             ELSE /\ suspended' = Append(suspended, i)
                  /\ context' = IF kind = "extend" THEN context \cup {i} ELSE context
                  /\ UNCHANGED <<chainPc, chainResult, shortCircuit>>
  /\ UNCHANGED <<middlewares, handlerRan, serverVars, clientVars>>

\* The terminal step: the handler runs with the merged context.
RunHandler ==
  /\ chainPc = "chain"
  /\ Len(ran) = Len(middlewares)
  /\ handlerRan' = TRUE
  /\ \E v \in Outputs : chainResult' = [output |-> v, context |-> {}]
  /\ chainPc' = "unwind"
  /\ UNCHANGED <<middlewares, ran, suspended, context, shortCircuit,
                 serverVars, clientVars>>

\* The innermost middleware waiting for next returns what next gave it; the
\* return of the outermost ends the chain.
MiddlewareReturns ==
  /\ chainPc = "unwind"
  /\ IF suspended = <<>>
       THEN /\ chainPc' = "done"
            /\ UNCHANGED suspended
       ELSE /\ suspended' = SubSeq(suspended, 1, Len(suspended) - 1)
            /\ UNCHANGED chainPc
  /\ UNCHANGED <<middlewares, ran, context, handlerRan, shortCircuit,
                 chainResult, serverVars, clientVars>>

NextChain ==
  \/ RunMiddleware
  \/ RunHandler
  \/ MiddlewareReturns

\* ------------------------------------------------------------ concurrent calls
\* No concurrent calls are modelled.
NoCalls == calls = <<>> /\ closures = <<>>

Calls == 1..MaxCalls

\* let isHeaderChecked = false, let currentBodySize = 0: the variables the
\* limiter interceptor declares each time it is invoked.
FreshClosure == [isHeaderChecked |-> FALSE, currentBodySize |-> 0]

\* A limiter that keeps its flag and counter on the plugin instance.
Scope_Plugin(c) == <<"plugin", 0>>

\* Where the flag and the counter of call c live: in the closure of the
\* interceptor invocation of that call.
Scope(c) == <<"call", c>>

ScopeKeys == {<<"call", c>> : c \in Calls} \cup {<<"plugin", 0>>}

\* A limiter that guards the request it first saw instead of the request of
\* the call it runs in.
Target_First(c) == 1

\* The call whose request the limiter of call c guards: options.request of the
\* interceptor invocation.
Target(c) == c

\* A call that has not begun: its request (content-length header, body chunks,
\* whether it has a body, whether the checking interceptor refuses it) and the
\* state of handle, of the limiter and of the body reader for it.
NewCall(h, b, hb, bad) ==
  [hdr |-> h, body |-> b, hasBody |-> hb, bad |-> bad,
   pc |-> "idle", index |-> 0, awaiting |-> <<>>, result |-> NoResult,
   std |-> "none", sent |-> "idle",
   guardedBy |-> <<>>, raw |-> 0, fw |-> <<>>, got |-> <<>>, reader |-> "idle",
   trip |-> "none", stream |-> NoStream, pumping |-> FALSE]

\* The requests a concurrent call may carry: one the checking interceptor
\* refuses, one with a body of one byte, one with a body of two bytes in two
\* chunks; none declares its length.
CallInputs ==
  LET h == [kind |-> "absent", n |-> 0] IN
  {NewCall(h, <<1>>, TRUE, TRUE), NewCall(h, <<1>>, TRUE, FALSE),
   NewCall(h, <<1, 1>>, TRUE, FALSE)}

\* Number(content-length) > this.maxBodySize for the header of one request.
TooLarge(h) == GreaterThan(Number(h), maxBodySize)

\* handle is called for call c on the constructed handler.
CallHandle ==
  \E c \in Calls :
    /\ pc = "ready"
    /\ calls[c].pc = "idle"
    /\ calls' = [calls EXCEPT ![c].pc = "next"]
    /\ UNCHANGED <<closures, ctorVars, singleVars>>

\* The wrapping stream of a request after the synchronous part of start.
StartStreamFor(h) ==
  IF TooLarge(h)
    THEN ControllerClose(ControllerError(NewStream, "PAYLOAD_TOO_LARGE"))
    ELSE NewStream

\* The next interceptor of call c is invoked. The checking interceptor throws
\* for a request it refuses; the limiter declares its flag and counter and
\* guards the request (Node: patched emit; Fetch: reader and wrapping stream,
\* unless the request has no body); every interceptor then calls next.
CallInterceptor ==
  \E c \in Calls :
    LET k == calls[c]
        i == k.index + 1
    IN /\ k.pc = "next"
       /\ k.index < Len(adapterInterceptors)
       /\ LET kind == adapterInterceptors[i]
              entered == [k EXCEPT !.index = i, !.awaiting = Append(@, i)]
              base == [calls EXCEPT ![c] = entered]
              t == Target(c)
              key == Scope(c)
          IN CASE kind = "check" /\ k.bad ->
                    /\ calls' = [calls EXCEPT ![c] =
                         [k EXCEPT !.index = i,
                                   !.pc = IF k.awaiting = <<>> THEN "done" ELSE "return",
                                   !.result = Thrown("interceptor", i)]]
                    /\ UNCHANGED closures
               [] kind = "bodyLimit" /\ adapter = "node" ->
                    /\ closures' = [closures EXCEPT ![key] = FreshClosure]
                    /\ calls' = [base EXCEPT ![t].guardedBy = key]
               [] kind = "bodyLimit" /\ adapter = "fetch" /\ k.hasBody ->
                    /\ closures' = [closures EXCEPT ![key] = FreshClosure]
                    /\ calls' = [base EXCEPT
                         ![t].guardedBy = key,
                         ![t].stream = StartStreamFor(base[t].hdr),
                         ![t].pumping = ~TooLarge(base[t].hdr),
                         ![t].trip = IF TooLarge(base[t].hdr) THEN "header" ELSE @]
               [] OTHER ->
                    /\ calls' = base
                    /\ UNCHANGED closures
    /\ UNCHANGED <<ctorVars, singleVars>>

\* The core function of call c, up to its first await.
CallMain ==
  \E c \in Calls :
    /\ calls[c].pc = "next"
    /\ calls[c].index = Len(adapterInterceptors)
    /\ \E converted \in BOOLEAN :
         calls' = [calls EXCEPT ![c] =
           IF converted THEN [@ EXCEPT !.pc = "standard"]
           ELSE [@ EXCEPT !.pc = "return", !.result = Thrown("convert", 0)]]
    /\ UNCHANGED <<closures, ctorVars, singleVars>>

\* The standard handler of call c starts to read the body.
CallReadBody ==
  \E c \in Calls :
    /\ calls[c].pc = "standard"
    /\ calls[c].hasBody
    /\ calls[c].reader = "idle"
    /\ calls' = [calls EXCEPT ![c].reader = "reading"]
    /\ UNCHANGED <<closures, ctorVars, singleVars>>


\* Node: the body reader of call c takes the next chunk and the request emits
\* 'data', through the patched emit when the request is guarded.
CallData ==
  \E c \in Calls :
    LET k == calls[c] IN
    /\ adapter = "node"
    /\ k.pc = "standard"
    /\ k.reader = "reading"
    /\ k.raw < Len(k.body)
    /\ LET chunk == k.body[k.raw + 1]
           read == [k EXCEPT !.raw = @ + 1]
           thrown == [read EXCEPT !.reader = ThrowReaches("PAYLOAD_TOO_LARGE")]
       IN IF k.guardedBy = <<>>
            THEN /\ calls' = [calls EXCEPT ![c] = [read EXCEPT !.got = Append(@, chunk)]]
                 /\ UNCHANGED closures
            ELSE LET cl == closures[k.guardedBy]
                     size == Counted(cl.currentBodySize, chunk)
                 IN IF ~cl.isHeaderChecked /\ TooLarge(k.hdr)
                      THEN /\ calls' = [calls EXCEPT ![c] =
                                [thrown EXCEPT !.trip = IF @ = "none" THEN "header" ELSE @]]
                           /\ UNCHANGED closures
                      ELSE /\ closures' = [closures EXCEPT ![k.guardedBy] =
                                [isHeaderChecked |-> TRUE, currentBodySize |-> size]]
                           /\ calls' = [calls EXCEPT ![c] =
                                IF Exceeds(size)
                                  THEN [thrown EXCEPT !.trip = IF @ = "none" THEN "size" ELSE @]
                                  ELSE [read EXCEPT !.fw = Append(@, chunk),
                                                    !.got = Append(@, chunk)]]
    /\ UNCHANGED <<ctorVars, singleVars>>

\* Node: the request of call c emits 'end'.
CallEnd ==
  \E c \in Calls :
    /\ adapter = "node"
    /\ calls[c].pc = "standard"
    /\ calls[c].reader = "reading"
    /\ calls[c].raw = Len(calls[c].body)
    /\ calls' = [calls EXCEPT ![c].reader = "end"]
    /\ UNCHANGED <<closures, ctorVars, singleVars>>

\* Fetch: one turn of the loop in start for the guarded request of call c.
CallRawRead ==
  \E c \in Calls :
    LET k == calls[c] IN
    /\ adapter = "fetch"
    /\ k.pumping
    /\ IF k.raw = Len(k.body)
         THEN /\ calls' = [calls EXCEPT ![c] =
                   [k EXCEPT !.stream = ControllerClose(@), !.pumping = FALSE]]
              /\ UNCHANGED closures
         ELSE LET chunk == k.body[k.raw + 1]
                  cl == closures[k.guardedBy]
                  size == Counted(cl.currentBodySize, chunk)
              IN /\ closures' = [closures EXCEPT ![k.guardedBy].currentBodySize = size]
                 /\ calls' = [calls EXCEPT ![c] =
                      IF Exceeds(size)
                        THEN [k EXCEPT !.raw = @ + 1, !.pumping = FALSE,
                                       !.trip = IF @ = "none" THEN "size" ELSE @,
                                       !.stream = ControllerClose(
                                          ControllerError(@, "PAYLOAD_TOO_LARGE"))]
                        ELSE [k EXCEPT !.raw = @ + 1, !.fw = Append(@, chunk),
                                       !.stream = ControllerEnqueue(@, chunk)]]
    /\ UNCHANGED <<ctorVars, singleVars>>

\* Fetch: the body reader of call c reads the body of the request it was given.
CallConsume ==
  \E c \in Calls :
    LET k == calls[c] IN
    /\ adapter = "fetch"
    /\ k.pc = "standard"
    /\ k.reader = "reading"
    /\ IF k.guardedBy # <<>>
         THEN /\ k.stream.queue # <<>> \/ k.stream.state \in {"closed", "errored"}
              /\ calls' = [calls EXCEPT ![c] =
                   IF k.stream.queue # <<>>
                     THEN [k EXCEPT !.got = Append(@, Head(k.stream.queue)),
                                    !.stream = Dequeue(@)]
                     ELSE [k EXCEPT !.reader = IF k.stream.state = "closed"
                                                 THEN "end" ELSE k.stream.error]]
         ELSE calls' = [calls EXCEPT ![c] =
                IF k.raw < Len(k.body)
                  THEN [k EXCEPT !.raw = @ + 1, !.got = Append(@, k.body[k.raw + 1])]
                  ELSE [k EXCEPT !.reader = "end"]]
    /\ UNCHANGED <<closures, ctorVars, singleVars>>

\* How standardHandler.handle can settle for call c: while it awaits the body
\* it is suspended; it fails on its own before it reads or after it decoded.
OutcomesOf(k) ==
  (IF k.reader # "reading" THEN {"throws"} ELSE {})
    \cup (IF k.reader = "idle" THEN {"unmatched"} ELSE {})
    \cup (IF ~k.hasBody \/ k.reader = "end" THEN {"matched"} ELSE {})
    \cup (IF k.reader \in BodyErrors THEN {"refused"} ELSE {})

\* What the core function of a call returns or throws once the standard
\* handler settled with the outcome and, for a matched request in Node, the
\* awaited send ended well or not.
CoreResult(k, outcome, ok) ==
  CASE outcome = "unmatched" -> Unmatched
    [] outcome = "throws" ->
         Thrown(IF k.reader \in BodyErrors THEN k.reader ELSE "standard", 0)
    [] adapter = "node" ->
         IF ok THEN Value(TRUE, "absent", "", 0) ELSE Thrown("send", 0)
    [] OTHER -> Value(TRUE, StandardResponse, responseOptions, 0)

\* The standard handler of call c settles and the core function finishes.
CallStandardSettles ==
  \E c \in Calls :
    LET k == calls[c] IN
    /\ k.pc = "standard"
    /\ \E outcome \in OutcomesOf(k), ok \in BOOLEAN :
         /\ (outcome \in {"unmatched", "throws"} \/ adapter = "fetch") => ok
         /\ calls' = [calls EXCEPT ![c] =
              [k EXCEPT !.pc = "return", !.std = outcome,
                        !.sent = IF outcome \in {"unmatched", "throws"} \/ adapter = "fetch"
                                   THEN "idle" ELSE IF ok THEN "done" ELSE "failed",
                        !.result = CoreResult(k, outcome, ok)]]
    /\ UNCHANGED <<closures, ctorVars, singleVars>>

\* The innermost suspended interceptor of call c returns; the return of the
\* outermost one settles the promise of handle.
CallReturns ==
  \E c \in Calls :
    LET k == calls[c] IN
    /\ k.pc = "return"
    /\ k.awaiting # <<>>
    /\ LET i == k.awaiting[Len(k.awaiting)] IN
         calls' = [calls EXCEPT ![c] =
           [k EXCEPT !.awaiting = SubSeq(@, 1, Len(@) - 1),
                     !.pc = IF Len(k.awaiting) = 1 THEN "done" ELSE "return",
                     !.result = Outcome(adapterInterceptors[i], i, @)]]
    /\ UNCHANGED <<closures, ctorVars, singleVars>>

NextCalls ==
  \/ initRuntimeAdapter
  \/ Construct
  \/ CallHandle
  \/ CallInterceptor
  \/ CallMain
  \/ CallReadBody
  \/ CallData
  \/ CallEnd
  \/ CallRawRead
  \/ CallConsume
  \/ CallStandardSettles
  \/ CallReturns

\* One handler with a checking interceptor and a BodyLimitPlugin of limit 1,
\* serving several requests at once.
InitCalls ==
  /\ InitWith({1}, {[kind |-> "absent", n |-> 0]}, {<<>>},
              {("context" :> "ctx")}, {<<"bodyLimit">>}, {<<"check">>})
  /\ hasBody
  /\ calls \in [Calls -> CallInputs]
  /\ closures = [key \in ScopeKeys |-> FreshClosure]
  /\ NoClient /\ NoChain

SpecCalls == InitCalls /\ [][NextCalls]_vars

\* ------------------------------------------------------------ specification
Next ==
  \/ Abort
  \/ initRuntimeAdapter
  \/ Construct
  \/ handle
  \/ UserInterceptor
  \/ NodeBodyLimit
  \/ FetchBodyLimit
  \/ Main
  \/ ReadBody
  \/ StandardSettles
  \/ SendSettles
  \/ InterceptorReturns
  \/ Settle
  \/ EmitData
  \/ EmitEnd
  \/ RawRead
  \/ Consume

\* Handlers of every shape (plugins, interceptors, callers) serving a request
\* with a short body.
Init ==
  /\ InitWith({1}, {[kind |-> "absent", n |-> 0]}, SeqsUpTo({1}, 1), HandleOptions,
              SeqsUpTo(PluginKinds, MaxPlugins), SeqsUpTo(UserKinds, MaxInterceptors))
  /\ NoCalls /\ NoClient /\ NoChain

Spec == Init /\ [][Next]_vars

\* A handler with a BodyLimitPlugin serving requests of every shape (limit,
\* header, body).
InitBody ==
  /\ InitWith(1..MaxLimit, Headers, SeqsUpTo(1..MaxChunkLen, MaxChunks),
              {("prefix" :> "/api" @@ "context" :> "ctx")},
              {<<"bodyLimit">>}, SeqsUpTo({"pass"}, 1))
  /\ NoCalls /\ NoClient /\ NoChain

SpecBody == InitBody /\ [][Next]_vars

\* A handler whose BodyLimitPlugin stands before or after a plugin that pushes
\* an interceptor of its own, serving a request with or without body.
InitFrame ==
  /\ InitWith({1}, {[kind |-> "absent", n |-> 0]}, {<<1>>}, HandleOptions,
              {<<"bodyLimit", "push">>, <<"push", "bodyLimit">>},
              SeqsUpTo({"pass", "tag"}, 1))
  /\ NoCalls /\ NoClient /\ NoChain

SpecFrame == InitFrame /\ [][Next]_vars

\* The same, with a request that may go on producing chunks after the limiter
\* rejected it, and whose body may fail while it is read.
NextLate ==
  \/ Abort
  \/ initRuntimeAdapter
  \/ Construct
  \/ handle
  \/ UserInterceptor
  \/ NodeBodyLimit
  \/ FetchBodyLimit
  \/ Main
  \/ ReadBody
  \/ StandardSettles
  \/ SendSettles
  \/ InterceptorReturns
  \/ Settle
  \/ EmitData
  \/ EmitEnd
  \/ EmitLate
  \/ RawRead
  \/ RawFails
  \/ Consume

SpecLate == InitBody /\ [][NextLate]_vars

\* No handler is modelled: the server side stays as constructed for nothing.
ServerIdle ==
  /\ InitWith({1}, {[kind |-> "absent", n |-> 0]}, {<<>>},
              {("context" :> "ctx")}, {<<>>}, {<<>>})
  /\ adapter = "node"
  /\ NoCalls

\* An application about to create its client.
InitClient == ServerIdle /\ NoClient /\ NoChain

SpecClient == InitClient /\ [][NextClient]_vars

\* A procedure with any middleware list, called with an initial context.
InitChain ==
  /\ ServerIdle /\ NoClient
  /\ middlewares \in SeqsUpTo(MiddlewareKinds, MaxMiddleware)
  /\ chainPc = "chain"
  /\ ran = <<>>
  /\ suspended = <<>>
  /\ context = {0}
  /\ handlerRan = FALSE
  /\ shortCircuit = NoShortCircuit
  /\ chainResult = NoChainResult

SpecChain == InitChain /\ [][NextChain]_vars

\* ------------------------------------------------------------ claims
\* Whether every interceptor hands on what next gave it (it may annotate a
\* value): none makes up a result or throws.
AllCallNext == \A i \in DOMAIN adapterInterceptors :
                 adapterInterceptors[i] \in {"pass", "tag", "catch", "bodyLimit"}

\* C1 as stated: a standard handler answering matched: false makes handle
\* resolve with matched: false and no response is produced; a standard handler
\* answering matched: true makes handle resolve with matched: true.
C1_AsStated ==
  pc = "done" =>
    /\ standardResult = "unmatched" =>
         /\ result.status = "ok" /\ ~result.matched
         /\ responseCalls = <<>>
         /\ adapter = "fetch" => result.response = "undefined"
    /\ standardResult = "matched" => result.status = "ok" /\ result.matched

\* C1 (amended): when the standard handler answers matched: false the core
\* function returns matched: false without producing a response (no call of
\* sendStandardResponse or toFetchResponse, response undefined in Fetch) and
\* handle resolves with that value; when it answers matched: true and the
\* response is delivered without error, handle resolves with the core
\* function's matched: true; when the Node send fails, handle does not resolve
\* with the core function's value: it rejects, or resolves with the result of
\* an interceptor that caught the error.
C1_MatchedReachesCaller ==
  pc = "done" =>
    /\ standardResult = "unmatched" =>
         /\ result.status = "ok" /\ ~result.matched /\ result.origin = 0
         /\ responseCalls = <<>> /\ sent = "idle"
         /\ adapter = "fetch" => result.response = "undefined"
    /\ standardResult = "matched" /\ sent # "failed" =>
         /\ result.status = "ok" /\ result.matched /\ result.origin = 0
         /\ Len(responseCalls) = 1
    /\ standardResult = "matched" /\ sent = "failed" =>
         /\ adapter = "node"
         /\ result.status = "error" \/ result.origin # 0

C1_Witness ==
  /\ pc = "done"
  /\ standardResult = "unmatched"
  /\ adapterInterceptors # <<>>
  /\ result.status = "ok" /\ ~result.matched

\* C2: in the Node adapter, a standard handler answering matched: true with R
\* leads to exactly one call of sendStandardResponse, with the native
\* response, R and the handler's send options; and handle resolves with the
\* core function's matched: true only once that send has completed.
C2_SendOnceBeforeResolve ==
  adapter = "node" /\ standardResult = "matched" =>
    /\ responseCalls = <<[target |-> NativeResponse, response |-> StandardResponse,
                          options |-> OptionsRef]>>
    /\ responseOptions = OptionsRef
    /\ (pc = "done" /\ result.status = "ok" /\ result.matched /\ result.origin = 0)
         => sent = "done"

C2_Witness ==
  /\ adapter = "node"
  /\ standardResult = "matched"
  /\ pc = "done"
  /\ sent = "done"
  /\ result.status = "ok" /\ result.matched /\ result.origin = 0

\* The events of a call through n interceptors that all call next: in, the
\* core step, out in reverse.
Onion(n) ==
  [k \in 1..(2 * n + 1) |->
     IF k <= n THEN Event("enter", k)
     ELSE IF k = n + 1 THEN Event("main", 0)
     ELSE Event("exit", 2 * n + 2 - k)]

IsPrefix(a, b) == Len(a) <= Len(b) /\ a = SubSeq(b, 1, Len(a))

\* C3: when every registered adapter interceptor calls next once, a handle call
\* enters them in registration order, then runs the core step, and they return
\* in the reverse of registration order.
C3_OnionOrder ==
  AllCallNext =>
    /\ IsPrefix(trace, Onion(Len(adapterInterceptors)))
    /\ pc = "done" => trace = Onion(Len(adapterInterceptors))
    /\ pc \notin {"new"} => adapterInterceptors = options.adapterInterceptors

C3_Witness ==
  /\ pc = "done"
  /\ Len(adapterInterceptors) = 2
  /\ AllCallNext
  /\ trace = <<Event("enter", 1), Event("enter", 2), Event("main", 0),
               Event("exit", 2), Event("exit", 1)>>

\* The interceptors before j that annotate a value, innermost first.
RECURSIVE TagsBefore(_)
TagsBefore(j) ==
  IF j <= 1 THEN <<>>
  ELSE (IF adapterInterceptors[j - 1] = "tag" THEN <<j - 1>> ELSE <<>>)
         \o TagsBefore(j - 1)

\* C4: when interceptor j returns a result of its own without calling next (and
\* those before it called next), no later interceptor runs, the request is not
\* converted, the standard handler is not invoked, no response is sent, and
\* handle resolves with j's result as transformed by the interceptors before j.
C4_ShortCircuit ==
  \A j \in DOMAIN adapterInterceptors :
    (/\ adapterInterceptors[j] = "short"
     /\ \A i \in 1..(j - 1) : adapterInterceptors[i] \in {"pass", "tag", "catch"})
    => /\ index <= j
       /\ Len(interceptorCalls) <= j
       /\ \A k \in DOMAIN trace : trace[k].ev # "main" /\ trace[k].i <= j
       /\ convertCalls = <<>>
       /\ standardCalls = <<>> /\ standardResult = "none"
       /\ responseCalls = <<>> /\ sent = "idle"
       /\ pc = "done" =>
            /\ result.status = "ok"
            /\ result.origin = j
            /\ result.tags = TagsBefore(j)
            /\ trace[Len(trace)] = Event("exit", 1)

C4_Witness ==
  /\ pc = "done"
  /\ Len(adapterInterceptors) = 3
  /\ adapterInterceptors[1] = "tag"
  /\ adapterInterceptors[2] = "short"
  /\ result.origin = 2
  /\ result.tags = <<1>>

\* How often interceptor i was entered.
Entries(i) == Cardinality({k \in DOMAIN trace : trace[k] = Event("enter", i)})

\* C5: in a Node handle call whose interceptors all call next once, every
\* interceptor is invoked exactly once, toStandardLazyRequest is called exactly
\* once with the native request and response, and the standard handler is
\* called exactly once, matched or not.
C5_EachStepOnce ==
  (adapter = "node" /\ AllCallNext) =>
    /\ \A i \in DOMAIN adapterInterceptors : Entries(i) <= 1
    /\ Len(convertCalls) <= 1
    /\ Len(standardCalls) <= 1
    /\ standardResult \in {"matched", "unmatched"} =>
         /\ \A i \in DOMAIN adapterInterceptors : Entries(i) = 1
         /\ Len(interceptorCalls) = Len(adapterInterceptors)
         /\ convertCalls = <<<<NativeRequest, NativeResponse>>>>
         /\ Len(standardCalls) = 1

C5_Witness ==
  /\ adapter = "node"
  /\ pc = "done"
  /\ Len(adapterInterceptors) = 2
  /\ AllCallNext
  /\ standardResult = "unmatched"
  /\ Len(standardCalls) = 1

\* The fields only the adapter layer knows.
AdapterOnly == {"request", "response", "sendStandardResponseOptions",
                "toFetchResponseOptions"}

Hooked(n) == SelectSeq([i \in 1..n |-> i], LAMBDA i : plugins[i] # "plain")
ExpectedInitCalls(n) ==
  [k \in 1..Len(Hooked(n)) |-> [plugin |-> Hooked(n)[k], options |-> OptionsRef]]

\* C7: constructing a handler calls initRuntimeAdapter of every plugin that
\* defines it exactly once, in plugin list order, each with the options object
\* given to the constructor, all before the handler fixes its interceptor list
\* and response options (so an interceptor pushed by a plugin is in the list);
\* handle calls make no further call.
C7_PluginsInitialisedOnce ==
  /\ pc = "new" =>
       /\ initCalls = ExpectedInitCalls(cursor - 1)
       /\ adapterInterceptors = <<>>
       /\ responseOptions = "unset"
  /\ pc # "new" =>
       /\ initCalls = ExpectedInitCalls(Len(plugins))
       /\ responseOptions = OptionsRef
       /\ (\E i \in DOMAIN plugins : plugins[i] = "bodyLimit")
            <=> (/\ adapterInterceptors # <<>>
                 /\ adapterInterceptors[Len(adapterInterceptors)] = "bodyLimit")

C7_Witness ==
  /\ pc = "done"
  /\ plugins = <<"hook", "bodyLimit">>
  /\ Len(initCalls) = 2
  /\ initCalls[1].plugin = 1 /\ initCalls[2].plugin = 2

\* The request declares a numeric content-length above the limit.
DeclaredOver == contentLength.kind = "num" /\ contentLength.n > maxBodySize

\* The first n chunks of the raw body.
Chunks(n) == SubSeq(body, 1, n)

\* C8 as stated: with the limiter in place, a request that declares more than
\* maxBodySize is rejected before the underlying request has produced any chunk
\* of its body.
C8_AsStated ==
  (limiter.installed /\ DeclaredOver) =>
    (rawRead > 0 => rejection.by = "header" /\ rejection.at = 0)

\* C8 amended: a request that declares more than maxBodySize never has a byte
\* of its body passed downstream. Fetch: the wrapping stream is errored with
\* PAYLOAD_TOO_LARGE when the interceptor runs and the raw body is never read.
\* Node: PAYLOAD_TOO_LARGE is thrown on the first 'data' event, after the
\* request produced that chunk. No request is rejected by the header check
\* unless it declares more than maxBodySize.
C8_HeaderRejection ==
  /\ (limiter.installed /\ DeclaredOver) =>
       /\ forwarded = <<>> /\ delivered = <<>>
       /\ adapter = "fetch" =>
            /\ rejection = [by |-> "header", at |-> 0, seen |-> <<>>]
            /\ rawRead = 0
            /\ wrapped.state = "errored" /\ wrapped.error = "PAYLOAD_TOO_LARGE"
            /\ consumer \in {"idle", "reading", "PAYLOAD_TOO_LARGE"}
       /\ adapter = "node" =>
            /\ rawRead = 0 => rejection.by = "none"
            /\ rawRead > 0 => rejection = [by |-> "header", at |-> 1, seen |-> <<>>]
  /\ rejection.by = "header" => DeclaredOver

C8_Witness ==
  /\ adapter = "node"
  /\ limiter.installed /\ DeclaredOver
  /\ rawRead = 1
  /\ Len(body) = 2
  /\ rejection = [by |-> "header", at |-> 1, seen |-> <<>>]
  /\ delivered = <<>>

\* C9 as stated: a body without length header is rejected at exactly the chunk
\* that takes the running total past maxBodySize, and none of the bytes
\* received before it is available downstream.
C9_AsStated ==
  (limiter.installed /\ contentLength.kind = "absent" /\ rejection.by = "size") =>
    /\ Sum(Chunks(rejection.at)) > maxBodySize
    /\ Sum(Chunks(rejection.at - 1)) <= maxBodySize
    /\ delivered = <<>>

\* C9 amended: a body without length header is rejected at exactly the chunk
\* that takes the running total past maxBodySize (not earlier, not later); that
\* chunk and the later ones are never passed downstream. The chunks before it
\* were passed on as they arrived: Node handed each to the listeners, Fetch
\* enqueued each on the wrapping stream, where the rejection drops only the
\* chunks not yet read and the next read fails with PAYLOAD_TOO_LARGE.
C9_RejectedAtCrossingChunk ==
  (limiter.installed /\ contentLength.kind = "absent") =>
    /\ rejection.by \in {"none", "size"}
    /\ rejection.by = "none" =>
         /\ Sum(Chunks(rawRead)) <= maxBodySize
         /\ forwarded = Chunks(rawRead)
    /\ rejection.by = "size" =>
         /\ rejection.at \in 1..rawRead
         /\ Sum(Chunks(rejection.at)) > maxBodySize
         /\ Sum(Chunks(rejection.at - 1)) <= maxBodySize
         /\ rejection.seen = Chunks(rejection.at - 1)
         /\ forwarded = Chunks(rejection.at - 1)
         /\ adapter = "fetch" =>
              /\ wrapped.queue = <<>>
              /\ wrapped.state = "errored" /\ wrapped.error = "PAYLOAD_TOO_LARGE"
    /\ IsPrefix(delivered, forwarded)
    /\ adapter = "node" => delivered = forwarded

C9_Witness ==
  /\ limiter.installed /\ contentLength.kind = "absent"
  /\ rejection.by = "size" /\ rejection.at = 3
  /\ Len(body) = 3
  /\ delivered = Chunks(2)

\* C10: whatever the content-length header says (absent, zero, non-numeric,
\* understated), once the bytes produced by the request add up to more than
\* maxBodySize the request has been rejected with PAYLOAD_TOO_LARGE, by the
\* size check at the crossing chunk unless the header itself is over the limit.
C10_LimitOnStreamedBytes ==
  (limiter.installed /\ Sum(Chunks(rawRead)) > maxBodySize) =>
    /\ rejection.by # "none"
    /\ ~DeclaredOver =>
         /\ rejection.by = "size"
         /\ Sum(Chunks(rejection.at)) > maxBodySize
         /\ Sum(Chunks(rejection.at - 1)) <= maxBodySize
         /\ forwarded = Chunks(rejection.at - 1)

C10_Witness ==
  /\ limiter.installed
  /\ contentLength.kind = "num" /\ contentLength.n = 1
  /\ Sum(body) > maxBodySize /\ contentLength.n < Sum(body)
  /\ rejection.by = "size"
  /\ rawRead = rejection.at

\* The limiter interceptor has been invoked for call c.
LimiterEntered(c) ==
  \E i \in 1..calls[c].index : adapterInterceptors[i] = "bodyLimit"

\* The chunks of the body of call c that have arrived so far.
Arrived(c) == SubSeq(calls[c].body, 1, calls[c].raw)

\* C11: with several requests in flight through one handler and one
\* BodyLimitPlugin, the limiter of each call counts the bytes of that call
\* only: its counter equals the bytes of its own request that have arrived, it
\* has tripped exactly when those bytes exceed maxBodySize, and a request whose
\* own body is within the limit is never refused and is read in full, whatever
\* the other requests carry.
C11_CounterPerCall ==
  \A c \in Calls :
    LET k == calls[c] IN
    LimiterEntered(c) =>
      /\ k.guardedBy # <<>>
      /\ closures[k.guardedBy].currentBodySize = Sum(Arrived(c))
      /\ k.trip # "none" <=> Sum(Arrived(c)) > maxBodySize
      /\ k.reader \in BodyErrors => Sum(k.body) > maxBodySize
      /\ Sum(k.body) <= maxBodySize =>
           /\ k.fw = Arrived(c)
           /\ k.reader = "end" => k.got = k.body
      /\ \A d \in Calls \ {c} :
           ~LimiterEntered(d) => calls[d].guardedBy = <<>>

\* Two requests of one byte each, together more than the limit of one byte,
\* both read in full and answered.
C11_Witness ==
  /\ \A c \in {1, 2} :
       /\ LimiterEntered(c)
       /\ calls[c].body = <<1>> /\ calls[c].got = <<1>>
       /\ calls[c].reader = "end" /\ calls[c].trip = "none"
       /\ calls[c].pc = "done" /\ calls[c].std = "matched"
  /\ Sum(calls[1].body) + Sum(calls[2].body) > maxBodySize

\* C12: when the body limiter trips, or the body of the call is larger than
\* maxBodySize, the procedure behind the standard handler is never executed;
\* a standard handler that answers such a call answers with the error.
C12_TripBeforeProcedure ==
  /\ rejection.by # "none" =>
       /\ procedure # "ran"
       /\ standardResult = "matched" => procedure = "refused"
  /\ (limiter.installed /\ Sum(body) > maxBodySize) => procedure # "ran"

C12_Witness ==
  /\ rejection.by = "size"
  /\ Sum(body) > maxBodySize
  /\ pc = "done"
  /\ standardResult = "matched"
  /\ procedure = "refused"

\* C13 as stated: after a limit trip the limiter has released the reader it
\* holds on the raw body, and no call ends with that reader still held or
\* still being read, aborted or not.
C13_AsStated ==
  /\ rejection.by # "none" => rawReader # "held"
  /\ pc = "done" => rawReader # "held" /\ ~limiter.reading

\* The place of the failure in the chain: the interceptor that threw, or one
\* past the last interceptor for a failure of the core step; 0 without failure.
FailedAt ==
  CASE index >= 1 /\ index <= Len(adapterInterceptors)
         /\ adapterInterceptors[index] = "throw" -> index
    [] convertCalls # <<>> /\ standardCalls = <<>> /\ pc \in {"return", "done"}
         -> Len(adapterInterceptors) + 1
    [] standardResult = "throws" -> Len(adapterInterceptors) + 1
    [] sent = "failed" -> Len(adapterInterceptors) + 1
    [] OTHER -> 0

\* The error of the failure.
FailedWith ==
  CASE FailedAt \in DOMAIN adapterInterceptors -> {"interceptor"}
    [] standardResult = "throws" -> {"standard"} \cup BodyErrors
    [] sent = "failed" -> {"send"}
    [] OTHER -> {"convert"}

\* The interceptors around the failure that catch an error.
Catchers == {i \in 1..(FailedAt - 1) : adapterInterceptors[i] = "catch"}

\* The exits of interceptors k, k - 1, ..., 1.
Exits(k) == [j \in 1..k |-> Event("exit", k + 1 - j)]

\* The request of call c is one the limiter has to refuse.
OverLimit(c) == Sum(calls[c].body) > maxBodySize

\* C14: with several handle calls in flight on one handler, an error thrown in
\* an interceptor of one call (the checking interceptor, or a trip of the body
\* limiter) ends that call only. Every finished call has the outcome its own
\* request determines: a refused request fails in its interceptor and reaches
\* nothing further, only a request over the limit ends with PAYLOAD_TOO_LARGE,
\* and a request within the limit that was answered had its whole body read.
\* The interceptor list and the options of the handler stay as constructed.
C14_ErrorEndsOwnCallOnly ==
  /\ \A c \in Calls :
       LET k == calls[c] IN
       k.pc = "done" =>
         /\ k.result.error = "interceptor" <=> k.bad
         /\ k.bad => /\ k.result = Thrown("interceptor", 1)
                     /\ k.std = "none" /\ k.reader = "idle" /\ k.raw = 0
         /\ (k.result.error = "PAYLOAD_TOO_LARGE" \/ k.std = "refused") =>
              ~k.bad /\ OverLimit(c)
         /\ (~k.bad /\ OverLimit(c)) => k.std # "matched"
         /\ (~k.bad /\ ~OverLimit(c) /\ k.std = "matched") =>
              /\ k.got = k.body
              /\ k.result \in {CoreResult(k, "matched", TRUE),
                                CoreResult(k, "matched", FALSE)}
  /\ pc = "ready" =>
       /\ adapterInterceptors = options.adapterInterceptors
       /\ Len(adapterInterceptors) = 2
       /\ responseOptions = OptionsRef

\* One call ended by a trip of the limiter, another refused by the checking
\* interceptor or not, and a call within the limit answered in full.
C14_Witness ==
  \E c, d \in Calls :
    /\ calls[c].pc = "done" /\ calls[c].result.error = "PAYLOAD_TOO_LARGE"
    /\ calls[d].pc = "done" /\ calls[d].std = "matched"
    /\ calls[d].result.status = "ok" /\ calls[d].got = calls[d].body

\* C15: an error of an interceptor, of the request conversion, of the standard
\* handler or of the send travels out through the interceptors registered
\* before the point of failure, in reverse registration order; handle rejects
\* with it unless one of them catches it, and then resolves with the result of
\* the innermost one that does; after a failure of the standard handler the
\* Node adapter sends no response.
C15_ErrorsPropagateOutward ==
  /\ standardResult = "throws" => responseCalls = <<>> /\ sent = "idle"
  /\ (pc = "done" /\ FailedAt > 0) =>
       /\ Len(trace) >= FailedAt - 1
       /\ SubSeq(trace, Len(trace) - (FailedAt - 1) + 1, Len(trace)) = Exits(FailedAt - 1)
       /\ Catchers = {} =>
            /\ result.status = "error"
            /\ result.error \in FailedWith
            /\ result.origin = (IF FailedAt \in DOMAIN adapterInterceptors THEN FailedAt ELSE 0)
       /\ Catchers # {} =>
            LET c == CHOOSE i \in Catchers : \A k \in Catchers : k <= i IN
            /\ result.status = "ok"
            /\ result.origin = c
            /\ result.tags = TagsBefore(c)

C15_Witness ==
  /\ pc = "done"
  /\ adapterInterceptors = <<"catch", "pass">>
  /\ sent = "failed"
  /\ result.status = "ok" /\ result.origin = 1

C17_OneLinkCallPerInvocation ==
  /\ linkCount = invoked
  /\ invoked = 0 => lastLinkCall = NoLinkCall
  /\ invoked > 0 =>
       /\ lastLinkCall.path = PathOf(clientOptions) \o lastInvocation.keys
       /\ lastLinkCall.input = lastInvocation.input
       /\ lastLinkCall.options = resolveFriendlyClientOptions(lastInvocation.options)
       /\ lastInvocation.returned = lastLinkCall.result

\* A client with base path api, invoked a second time after planet and list
\* were accessed in this order, and answered.
C17_Witness ==
  /\ PathOf(clientOptions) = <<"api">>
  /\ invoked = 2
  /\ lastInvocation.keys = <<"planet", "list">>
  /\ lastLinkCall.path = <<"api", "planet", "list">>
  /\ lastInvocation.options.given
  /\ lastInvocation.returned.status = "ok"

\* C18: middlewareOutputFn gives a result with exactly the value it was given
\* as output and an empty context; once a middleware returned that result
\* instead of calling next, no later middleware and no handler runs, and the
\* result of the chain is that result.
C18_OutputShortCircuits ==
  /\ \A v \in Outputs :
       /\ middlewareOutputFn(v).output = v
       /\ middlewareOutputFn(v).context = {}
  /\ shortCircuit.at # 0 =>
       /\ chainPc \in {"unwind", "done"}
       /\ chainResult = [output |-> shortCircuit.value, context |-> {}]
       /\ ~handlerRan
       /\ ran = [i \in 1..shortCircuit.at |-> i]

\* The second of three middleware short-circuits a call whose first
\* middleware had added context, and the call has ended.
C18_Witness ==
  /\ Len(middlewares) = 3
  /\ middlewares[1] = "extend"
  /\ shortCircuit.at = 2
  /\ chainPc = "done"
  /\ chainResult.output = "v2"

\* C19: with a limiter in place, the bytes it has passed downstream never add
\* up to more than maxBodySize.
C19_ForwardedWithinLimit ==
  limiter.installed =>
    /\ Sum(forwarded) <= maxBodySize
    /\ Sum(delivered) <= maxBodySize
    /\ adapter = "fetch" => Sum(delivered) + Sum(wrapped.queue) <= maxBodySize

C19_Witness ==
  /\ limiter.installed
  /\ rejection.by = "size"
  /\ Sum(forwarded) = maxBodySize
  /\ Len(forwarded) = 2

\* The body and its declared length, if any, are within the limit.
WithinLimit ==
  /\ Sum(body) <= maxBodySize
  /\ \/ contentLength.kind = "absent"
     \/ contentLength.kind = "num" /\ contentLength.n <= maxBodySize

\* C20: for a body within the limit whose declared length, if any, is within
\* the limit, the limiter is transparent: the consumer receives the chunks of
\* the body in order, none lost, doubled or changed, then the normal end.
C20_TransparentWithinLimit ==
  (limiter.installed /\ WithinLimit) =>
    /\ rejection.by = "none"
    /\ IsPrefix(forwarded, body)
    /\ IsPrefix(delivered, body)
    /\ consumer \in {"idle", "reading", "end"}
    /\ consumer = "end" => delivered = body
    /\ adapter = "fetch" =>
         /\ wrapped.state # "errored"
         /\ delivered \o wrapped.queue = forwarded

C20_Witness ==
  /\ limiter.installed /\ WithinLimit
  /\ adapter = "fetch"
  /\ Len(body) = 2
  /\ consumer = "end"
  /\ delivered = body

\* The body holds exactly maxBodySize bytes and the request declares that
\* length or none.
AtLimit ==
  /\ Sum(body) = maxBodySize
  /\ \/ contentLength.kind = "absent"
     \/ contentLength.kind = "num" /\ contentLength.n = maxBodySize

\* The body holds one byte more than maxBodySize.
OneOver == Sum(body) = maxBodySize + 1

\* C21: the limit is inclusive in both limiters, however the body is split
\* into chunks: a body of exactly maxBodySize bytes, declared as such or not
\* declared, is never rejected, is passed on whole and ends normally; a body
\* of maxBodySize + 1 bytes is rejected by the time its last chunk has arrived
\* and never reaches the consumer whole.
C21_InclusiveLimit ==
  limiter.installed =>
    /\ AtLimit =>
         /\ rejection.by = "none"
         /\ consumer \notin BodyErrors
         /\ rawRead = Len(body) => forwarded = body
         /\ consumer = "end" => delivered = body
    /\ OneOver =>
         /\ rawRead = Len(body) => rejection.by # "none"
         /\ consumer # "end"
         /\ delivered # body

\* A body of exactly the declared and allowed size, in two chunks, read to its
\* normal end.
C21_Witness ==
  /\ limiter.installed
  /\ contentLength.kind = "num" /\ contentLength.n = maxBodySize
  /\ Sum(body) = maxBodySize /\ Len(body) = 2
  /\ rejection.by = "none"
  /\ consumer = "end" /\ delivered = body

\* C22: a rejection by the limiter is final for the call. From then on the
\* chunks passed downstream are exactly those passed before the rejection,
\* whatever the request produces afterwards; the consumer holds no more than
\* these, and in Fetch the wrapping stream is errored with nothing queued and
\* the raw body is read no further.
C22_RejectionIsFinal ==
  rejection.by # "none" =>
    /\ forwarded = rejection.seen
    /\ IsPrefix(delivered, rejection.seen)
    /\ adapter = "fetch" =>
         /\ wrapped.state = "errored" /\ wrapped.queue = <<>>
         /\ ~limiter.reading
         /\ rawRead = rejection.at

\* A Node request rejected at its first chunk whose two later chunks, each
\* small enough to pass on its own, have been produced as well.
C22_Witness ==
  /\ adapter = "node"
  /\ rejection.by = "size" /\ rejection.at = 1
  /\ Len(body) = 3 /\ rawRead = 3
  /\ body[2] <= maxBodySize /\ body[3] <= maxBodySize
  /\ forwarded = <<>>

\* start of the wrapping stream has run to its end.
StartEnded == limiter.installed /\ ~limiter.reading

\* C23: in the Fetch limiter controller.close() is called exactly once when
\* start ends, whether the body was read to its end, was refused or failed to
\* be read, and not before. When the limit was exceeded the wrapping stream
\* stays errored with PAYLOAD_TOO_LARGE after that close: it is not closed
\* normally and carries no other error, so the consumer never sees the normal
\* end of the body.
C23_CloseKeepsTheError ==
  (adapter = "fetch" /\ limiter.installed) =>
    /\ wrapped.closeCalls = (IF StartEnded THEN 1 ELSE 0)
    /\ rejection.by # "none" =>
         /\ StartEnded
         /\ wrapped.state = "errored"
         /\ wrapped.error = "PAYLOAD_TOO_LARGE"
         /\ consumer \in {"idle", "reading", "PAYLOAD_TOO_LARGE"}

\* A Fetch consumer that received the first chunk and then the error of the
\* limit, after the close of the finally block.
C23_Witness ==
  /\ adapter = "fetch"
  /\ rejection.by = "size"
  /\ wrapped.closeCalls = 1
  /\ Len(delivered) = 1
  /\ consumer = "PAYLOAD_TOO_LARGE"

\* handle has been called.
Handling == pc \notin {"new", "ready"}

\* The place of the limiter in the interceptor list of the handler, 0 while
\* the list holds none.
LimiterAt ==
  IF \E i \in DOMAIN adapterInterceptors : adapterInterceptors[i] = "bodyLimit"
    THEN CHOOSE i \in DOMAIN adapterInterceptors : adapterInterceptors[i] = "bodyLimit"
    ELSE 0

\* C24: the Fetch limiter passes a request without body on untouched: every
\* interceptor, before or after it, and the core step get the options and the
\* request handle built, no reader is taken on the request, no wrapping stream
\* is made and nothing is counted or rejected.
C24_NoBodyUntouched ==
  (adapter = "fetch" /\ ~hasBody /\ Handling) =>
    /\ current = InterceptorOptions
    /\ \A k \in DOMAIN interceptorCalls : interceptorCalls[k] = InterceptorOptions
    /\ \A k \in DOMAIN convertCalls : convertCalls[k] = <<NativeRequest>>
    /\ \A k \in DOMAIN standardCalls :
         standardCalls[k].request = StandardLazyRequest(NativeRequest)
    /\ rawReader = "none"
    /\ limiter = NoLimiter /\ wrapped = NoStream
    /\ rawRead = 0 /\ rejection = NoRejection

\* A request without body that went through the limiter, then through a
\* later interceptor and the core step, to the end of the call.
C24_Witness ==
  /\ adapter = "fetch" /\ ~hasBody
  /\ LimiterAt > 0 /\ LimiterAt < Len(adapterInterceptors)
  /\ Len(interceptorCalls) = Len(adapterInterceptors)
  /\ Len(standardCalls) = 1
  /\ pc = "done"

\* The interceptor options with the request replaced by the one the limiter
\* made.
LimitedOptions == [InterceptorOptions EXCEPT !["request"] = LimitedRequest(NativeRequest)]

\* C25: for a request with a body the Fetch limiter calls next with replaced
\* arguments: the interceptors up to and including the limiter get the options
\* handle built, every later interceptor and the core step get the same
\* options with a new request in place of the original (context, prefix and
\* response options as before), and what the consumer reads comes from the
\* wrapping stream of the limiter.
C25_NextGetsLimitedRequest ==
  (adapter = "fetch" /\ hasBody /\ Handling) =>
    /\ LimitedOptions["request"] # NativeRequest
    /\ \A f \in DOMAIN InterceptorOptions \ {"request"} :
         LimitedOptions[f] = InterceptorOptions[f]
    /\ \A k \in DOMAIN interceptorCalls :
         interceptorCalls[k] = IF k <= LimiterAt THEN InterceptorOptions
                               ELSE LimitedOptions
    /\ current = IF index >= LimiterAt THEN LimitedOptions ELSE InterceptorOptions
    /\ index >= LimiterAt => limiter.installed /\ rawReader = "held"
    /\ \A k \in DOMAIN convertCalls : convertCalls[k] = <<LimitedOptions["request"]>>
    /\ \A k \in DOMAIN standardCalls :
         /\ standardCalls[k].request = StandardLazyRequest(LimitedOptions["request"])
         /\ standardCalls[k].options = handleOptions
    /\ delivered \o wrapped.queue = forwarded \/ wrapped.state = "errored"

\* A request with a body whose limiter is followed by another interceptor:
\* that interceptor and the core step ran, and the body was read to its end.
C25_Witness ==
  /\ adapter = "fetch" /\ hasBody
  /\ LimiterAt > 0 /\ LimiterAt < Len(adapterInterceptors)
  /\ Len(interceptorCalls) = Len(adapterInterceptors)
  /\ "prefix" \in DOMAIN handleOptions
  /\ Len(standardCalls) = 1
  /\ consumer = "end" /\ delivered = body

====
